---- MODULE Spec2Model ----
(***************************************************************************)
(* State machine of the zkevm-chain coordinator                            *)
(* (coordinator/src/shared_state.rs): the shared RwState behind one tokio  *)
(* Mutex, the main loop sync -> mine -> submit_blocks -> finalize_blocks,  *)
(* and the background proof tasks spawned by finalize_block.               *)
(*                                                                         *)
(* Hashes are small integers: ZeroHash is H256::zero(), the L2 block with  *)
(* number n has hash n + 1, UnknownHash is a hash the leader does not      *)
(* know.  The L1 chain is a sequence of blocks, each with at most one      *)
(* bridge log.                                                             *)
(***************************************************************************)
EXTENDS Integers, Sequences, FiniteSets, TLC

\* ------------------------------------------------------------- bounds
MaxL1Blocks == 2
MaxL2Blocks == 2
MaxMessages == 3
\* the length of the L1 chain where the ranges of one sync pass are
\* examined on their own
MaxRangeBlocks == 5

\* ---------------------------------------------------- program constants
MAX_PENDING_PROOFS == 1
\* pending_proofs is a u32 (45).  TLC's integers end at 2^31 - 1, which
\* stands here for u32::MAX, the value a decrement of 0 wraps to.
U32Max == 2147483647
WrappingInc(x) == IF x = U32Max THEN 0 ELSE x + 1
\* the counter left as it is
NoDecrement(x) == x
\* 448: pending_proofs -= 1
WrappingDec(x) == IF x = 0 THEN U32Max ELSE x - 1

VARIABLES
    \* RwState (shared_state.rs 41-48)
    chain_state, prover_requests, pending_proofs, last_sync_block,
    l1_message_queue,
    \* the tokio Mutex around RwState: "free", or "main" while the main
    \* activity holds a guard across statements
    rw_lock,
    \* the main activity: its position and its locals
    pc, latest_block, from, to, logs, todo, blocks, fin_args,
    \* the spawned proof tasks, one slot per block number
    task,
    \* the L1 node, the L2 leader and its mining mode (miner_start /
    \* miner_stop)
    l1_chain, l2_height, txpool, mining,
    \* the outside world: whether the external services have recovered
    \* for good, and the position of a second caller of init
    healthy, init2,
    \* history: what was handed to the network, what the logger printed
    msg_serial, delivered, mine_step, submit_sent, fin_sent, fin_result,
    retry,
    \* history: the block ranges the running sync pass has asked
    \* eth_getLogs for
    ranges,
    \* history: whether the running tick began quiet, and what it did
    tick

rwVars == <<chain_state, prover_requests, pending_proofs, last_sync_block,
            l1_message_queue>>
localVars == <<latest_block, from, to, logs, todo, blocks, fin_args>>
envVars == <<l1_chain, l2_height, txpool, mining, healthy, init2>>
histRest == <<msg_serial, delivered, mine_step, submit_sent, fin_sent,
              fin_result, retry, ranges>>
histVars == <<histRest, tick>>
vars == <<rwVars, rw_lock, pc, localVars, task, envVars, histVars>>

\* -------------------------------------------------------------- hashes
ZeroHash == 0
HashOf(n) == n + 1
NumberOf(h) == h - 1
UnknownHash == MaxL2Blocks + 2
BlockNums == 1..MaxL2Blocks
\* the leader answers eth_getBlockByHash / eth_getHeaderByHash for h
LeaderKnows(h) == h >= HashOf(0) /\ h <= HashOf(l2_height)

Min(a, b) == IF a < b THEN a ELSE b

\* ------------------------------------------------------------- proofs
NoProof == [evm_proof |-> <<>>, state_proof |-> <<>>]
Proofs == {[evm_proof |-> <<1, 2>>, state_proof |-> <<3>>],
           [evm_proof |-> <<>>, state_proof |-> <<4>>]}
\* HashMap<U64, Option<Proofs>>: no entry, Some(None), Some(Some(proof))
Absent == [st |-> "absent", proof |-> NoProof]
Pending == [st |-> "pending", proof |-> NoProof]
Ready(p) == [st |-> "ready", proof |-> p]

\* the history of the running mine step: the length of the queue it
\* found, the messages it sent, its calls to the leader's miner
NoMineStep == [before |-> 0, sent |-> 0, miner |-> <<>>]

NoTask == [pc |-> "none", res |-> "none", proof |-> NoProof]

\* 460-465: the locals block_hash, witness and proof_data of
\* finalize_block, before they are computed
NoArgs == [block_hash |-> ZeroHash, witness |-> <<>>, proof_data |-> <<>>]

\* the history of the running tick.  quiet is "no" unless the tick began
\* with an empty pool and head = safe = final and no transaction has
\* reached the leader since; of such a tick it is "calm" while head is
\* the leader's latest block, sync has consumed no bridge log of a block
\* and no message was delivered, and "disturbed" otherwise.  sent: such
\* a tick has sent an L1 transaction.
NoTick == [quiet |-> "no", sent |-> FALSE]
TickStart(cs, pool, leader_head) ==
    [quiet |-> IF /\ pool = 0
                  /\ cs.safe_block_hash = cs.head_block_hash
                  /\ cs.finalized_block_hash = cs.head_block_hash
               THEN (IF cs.head_block_hash = leader_head
                     THEN "calm" ELSE "disturbed")
               ELSE "no",
     sent |-> FALSE]
Disturbed(t) == [t EXCEPT !.quiet = IF @ = "calm" THEN "disturbed" ELSE @]
L1Sent(t) == [t EXCEPT !.sent = (t.quiet # "no")]

\* ------------------------------------------------------------ L1 logs
\* A log carries what sync reads of it: kind is the event of topics[0];
\* hash is the keccak of the submitted payload, or the data of a
\* BlockFinalized; tx is the transaction of the log, with some: its
\* hash is in the log (200), len: the length of its input, declared:
\* the payload length the input states at bytes 36..68; abi_ok: the
\* log parses as the event of its topic (259).
\* 214: the payload of submitBlock starts at byte 68 of the input
PayloadStart == 68
\* the length of a submitted payload; its value plays no part
PayloadLen == 2
WholeTx == [some |-> TRUE, len |-> PayloadStart + PayloadLen,
            declared |-> PayloadLen]
NoTx == [some |-> TRUE, len |-> 0, declared |-> 0]
NoLog == [kind |-> "none", hash |-> ZeroHash, tx |-> NoTx, abi_ok |-> TRUE]
MessageLog ==
    [kind |-> "L1MessageSent", hash |-> ZeroHash, tx |-> NoTx, abi_ok |-> TRUE]
SubmittedLog(h) ==
    [kind |-> "BlockSubmitted", hash |-> h, tx |-> WholeTx, abi_ok |-> TRUE]
FinalizedLog(h) ==
    [kind |-> "BlockFinalized", hash |-> h, tx |-> NoTx, abi_ok |-> TRUE]

\* &data[a..b] of a slice of length len: Rust panics unless
\* a <= b <= len
SliceOk(len, a, b) == a <= b /\ b <= len
\* 200: log.transaction_hash.expect("log txhash")
HasTxHash(log) == log.tx.some
\* 213: U256::from(&tx_data[36..68])
DeclaredReadable(log) == SliceOk(log.tx.len, 36, PayloadStart)
\* 215-219: keccak256(&tx_data[start..end]) with end = start + len; the
\* warning of 216-218 changes neither start nor end
PayloadReadable(log) ==
    SliceOk(log.tx.len, PayloadStart, PayloadStart + log.tx.declared)
\* 257-266: parse_log(..).unwrap() and the into_*().unwrap() of the
\* parameters
MessageDecodes(log) == log.abi_ok
\* the for body of 196-287 gets through the log without a panic
LogHandled(log) ==
    /\ log.kind = "BlockSubmitted" =>
           HasTxHash(log) /\ DeclaredReadable(log) /\ PayloadReadable(log)
    /\ log.kind = "L1MessageSent" => MessageDecodes(log)

\* logs of the bridge's topics that sync cannot read: a BlockSubmitted
\* without a transaction hash, one raised by a transaction whose input
\* is a bare selector, one whose input states a payload longer than
\* what follows byte 68, an L1MessageSent whose data does not parse
NoTxHashLog ==
    [kind |-> "BlockSubmitted", hash |-> UnknownHash,
     tx |-> [WholeTx EXCEPT !.some = FALSE], abi_ok |-> TRUE]
ShortInputLog ==
    [kind |-> "BlockSubmitted", hash |-> UnknownHash,
     tx |-> [some |-> TRUE, len |-> 4, declared |-> 0], abi_ok |-> TRUE]
TruncatedLog ==
    [kind |-> "BlockSubmitted", hash |-> UnknownHash,
     tx |-> [WholeTx EXCEPT !.len = @ - 1], abi_ok |-> TRUE]
UndecodableLog ==
    [kind |-> "L1MessageSent", hash |-> ZeroHash, tx |-> NoTx,
     abi_ok |-> FALSE]
MalformedLogs == {NoTxHashLog, ShortInputLog, TruncatedLog, UndecodableLog}

\* The bridge numbers what it accepts: the L2 blocks submitted and
\* finalized so far.  A submitBlock whose payload is no L2 header
\* (UnknownHash) is logged as well and does not count.
Submitted ==
    Cardinality({i \in 1..Len(l1_chain) :
                    /\ l1_chain[i].kind = "BlockSubmitted"
                    /\ l1_chain[i].hash # UnknownHash})
Finalized ==
    Cardinality({i \in 1..Len(l1_chain) :
                    l1_chain[i].kind = "BlockFinalized"})

\* the logs the next L1 block can hold: a message, the submission of
\* the next L2 block the leader has, a submission of something else,
\* the finalization of the next submitted block
BridgeLogs ==
    {MessageLog, SubmittedLog(UnknownHash)}
    \cup (IF Submitted < l2_height
          THEN {SubmittedLog(HashOf(Submitted + 1))} ELSE {})
    \cup (IF Finalized < Submitted
          THEN {FinalizedLog(HashOf(Finalized + 1))} ELSE {})

\* eth_getLogs(from, to): the logs of L1 blocks a..b, oldest first, each
\* with the number of the block that holds it
RECURSIVE GetLogs(_, _)
GetLogs(a, b) ==
    IF a > b THEN <<>>
    ELSE (IF l1_chain[a].kind = "none" THEN <<>>
          ELSE <<[kind |-> l1_chain[a].kind, hash |-> l1_chain[a].hash,
                  tx |-> l1_chain[a].tx, abi_ok |-> l1_chain[a].abi_ok,
                  l1 |-> a]>>)
         \o GetLogs(a + 1, b)

Init ==
    /\ chain_state = [head_block_hash |-> ZeroHash,
                      safe_block_hash |-> ZeroHash,
                      finalized_block_hash |-> ZeroHash]
    /\ prover_requests = [k \in BlockNums |-> Absent]
    /\ pending_proofs = 0
    /\ last_sync_block = 0
    /\ l1_message_queue = <<>>
    /\ rw_lock = "free"
    /\ pc = "init_check"
    /\ latest_block = 0
    /\ from = 0
    /\ to = 0
    /\ logs = <<>>
    /\ todo = <<>>
    /\ blocks = <<>>
    /\ fin_args = NoArgs
    /\ task = [k \in BlockNums |-> NoTask]
    /\ l1_chain = <<>>
    /\ l2_height = 0
    /\ txpool = 0
    /\ mining = FALSE
    /\ healthy = FALSE
    /\ init2 = "none"
    /\ msg_serial = 0
    /\ ranges = <<>>
    /\ delivered = <<>>
    /\ mine_step = NoMineStep
    /\ submit_sent = <<>>
    /\ fin_sent = {}
    /\ fin_result = "none"
    /\ retry = [k \in BlockNums |-> "none"]
    /\ tick = NoTick

\* ------------------------------------------------- the block walk
\* get_blocks_between(a, b): from b along the parent hashes until a,
\* the newest block first; the walk fails on a hash the leader does
\* not know
ParentHash(h) == IF NumberOf(h) = 0 THEN ZeroHash ELSE HashOf(NumberOf(h) - 1)

RECURSIVE WalkOk(_, _)
WalkOk(a, h) ==
    IF h = a THEN TRUE
    ELSE IF ~LeaderKnows(h) THEN FALSE
    ELSE WalkOk(a, ParentHash(h))

RECURSIVE BlocksBetween(_, _)
BlocksBetween(a, h) ==
    IF h = a \/ ~LeaderKnows(h) THEN <<>>
    ELSE <<NumberOf(h)>> \o BlocksBetween(a, ParentHash(h))

\* ------------------------------------------------------- the driver
\* A panic inside a step (a failed .expect()/.unwrap(), an expired
\* timeout!) unwinds the step: its guards are dropped, its locals are
\* lost, and the driver starts the next tick at sync.
ResetLocals ==
    /\ latest_block' = 0
    /\ from' = 0
    /\ to' = 0
    /\ logs' = <<>>
    /\ todo' = <<>>
    /\ blocks' = <<>>
    /\ fin_args' = NoArgs

\* the main activity awaits an RPC whose failure panics: eth_getLogs
\* (194), eth_getTransactionByHash (208), txpool_status (325), the head
\* lookup (356), the block walk (372, 413), debug_getHeaderRlp (385);
\* or an RPC under timeout!, whose expiry panics: miner_start (336),
\* miner_stop (349)
AwaitsPanickingRpc ==
    \/ pc = "sync_fetch" /\ from <= latest_block
    \/ pc = "sync_logs" /\ logs # <<>> /\ Head(logs).kind = "BlockSubmitted"
    \/ pc \in {"mine_txpool", "mine_start", "mine_stop", "mine_head",
               "submit_walk", "submit_block", "fin_walk"}

\* an RPC fails while the services have not recovered; the block walk
\* fails whenever its start is not an ancestor of its end; sync panics
\* on a log it cannot read
StepPanic ==
    /\ \/ ~healthy /\ AwaitsPanickingRpc
       \/ pc = "sync_logs" /\ logs # <<>> /\ ~LogHandled(Head(logs))
       \/ /\ pc = "submit_walk"
          /\ ~WalkOk(chain_state.safe_block_hash,
                     chain_state.head_block_hash)
       \/ /\ pc = "fin_walk"
          /\ ~WalkOk(chain_state.finalized_block_hash,
                     chain_state.safe_block_hash)
    /\ pc' = "sync_block_number"
    /\ ResetLocals
    /\ mine_step' = NoMineStep
    /\ tick' = TickStart(chain_state, txpool, HashOf(l2_height))
    /\ ranges' = <<>>
    /\ UNCHANGED <<rwVars, rw_lock, task, envVars, msg_serial, delivered,
                   submit_sent, fin_sent, fin_result, retry>>

\* the tick is over: the driver sleeps and starts the next one
TickEnd ==
    /\ pc = "tick_end"
    /\ pc' = "sync_block_number"
    /\ submit_sent' = <<>>
    /\ fin_result' = "none"
    /\ tick' = TickStart(chain_state, txpool, HashOf(l2_height))
    /\ UNCHANGED <<rwVars, rw_lock, localVars, task, envVars, msg_serial,
                   ranges,
                   delivered, mine_step, fin_sent, retry>>

\* ------------------------------------------------------------- init
\* 143-145: the guard of the if is dropped before the block is entered
InitCheck ==
    /\ pc = "init_check"
    /\ rw_lock = "free"
    /\ pc' = IF chain_state.head_block_hash # ZeroHash
             THEN "panicked" ELSE "init_genesis"
    /\ UNCHANGED <<rwVars, rw_lock, localVars, task, envVars, histVars>>

\* 147-153: eth_getBlockByNumber("0x0"), unwrap and timeout!, which
\* panic on an error or a late answer
InitGenesis ==
    /\ pc = "init_genesis"
    /\ pc' \in IF healthy THEN {"init_write"} ELSE {"init_write", "panicked"}
    /\ UNCHANGED <<rwVars, rw_lock, localVars, task, envVars, histVars>>

\* 156-160: the guard lives to the end of init, nothing is awaited there
InitWrite ==
    /\ pc = "init_write"
    /\ rw_lock = "free"
    /\ chain_state' = [head_block_hash |-> HashOf(0),
                       safe_block_hash |-> HashOf(0),
                       finalized_block_hash |-> HashOf(0)]
    /\ pc' = "sync_block_number"
    /\ tick' = TickStart(chain_state', txpool, HashOf(l2_height))
    /\ UNCHANGED <<prover_requests, pending_proofs, last_sync_block,
                   l1_message_queue, rw_lock, localVars, task, envVars,
                   histRest>>

\* ------------------------------------------------------------- sync
\* 164-171: eth_blockNumber; the node may answer with any block number
\* it has had, and with its latest one once the services have recovered
BlockNumberReplies ==
    IF healthy THEN {Len(l1_chain)} ELSE 0..Len(l1_chain)

SyncBlockNumber ==
    /\ pc = "sync_block_number"
    /\ \E n \in BlockNumberReplies : latest_block' = n
    /\ pc' = "sync_from"
    /\ UNCHANGED <<rwVars, rw_lock, from, to, logs, todo, blocks, fin_args,
                   task, envVars, histVars>>

\* 172
SyncFrom ==
    /\ pc = "sync_from"
    /\ rw_lock = "free"
    /\ from' = last_sync_block + 1
    /\ pc' = "sync_fetch"
    /\ UNCHANGED <<rwVars, rw_lock, latest_block, to, logs, todo, blocks,
                   fin_args, task, envVars, histVars>>

\* 183: the end of the range that starts at from
RangeEnd(first, latest) == Min(first + 1, latest)

\* 181-195: the loop test, the range and eth_getLogs
SyncFetch ==
    /\ pc = "sync_fetch"
    /\ from <= latest_block
    /\ to' = RangeEnd(from, latest_block)
    /\ logs' = GetLogs(from, to')
    /\ ranges' = Append(ranges, [from |-> from, to |-> to'])
    /\ pc' = "sync_logs"
    /\ UNCHANGED <<rwVars, rw_lock, latest_block, from, todo, blocks,
                   fin_args, task, envVars, msg_serial, delivered, mine_step,
                   submit_sent, fin_sent, fin_result, retry, tick>>

\* 222-238: resp is the answer of eth_getHeaderByHash; an Err is
\* logged ("TODO: block not found") and the assignment of 238 follows
\* in both cases
SafeAfterSubmitted(safe, block_hash, resp_is_ok) == block_hash

\* 199-240: the hash of the submitted payload becomes safe
SyncBlockSubmitted ==
    /\ pc = "sync_logs"
    /\ logs # <<>>
    /\ Head(logs).kind = "BlockSubmitted"
    /\ LogHandled(Head(logs))
    /\ rw_lock = "free"
    /\ chain_state' =
           [chain_state EXCEPT
                !.safe_block_hash =
                    SafeAfterSubmitted(@, Head(logs).hash,
                                       LeaderKnows(Head(logs).hash))]
    /\ logs' = Tail(logs)
    /\ tick' = Disturbed(tick)
    /\ UNCHANGED <<prover_requests, pending_proofs, last_sync_block,
                   l1_message_queue, rw_lock, pc, latest_block, from, to,
                   todo, blocks, fin_args, task, envVars, histRest>>

\* 242-252
SyncBlockFinalized ==
    /\ pc = "sync_logs"
    /\ logs # <<>>
    /\ Head(logs).kind = "BlockFinalized"
    /\ rw_lock = "free"
    /\ chain_state' = [chain_state EXCEPT
                           !.finalized_block_hash = Head(logs).hash]
    /\ logs' = Tail(logs)
    /\ tick' = Disturbed(tick)
    /\ UNCHANGED <<prover_requests, pending_proofs, last_sync_block,
                   l1_message_queue, rw_lock, pc, latest_block, from, to,
                   todo, blocks, fin_args, task, envVars, histRest>>

\* 284: Vec::push
QueuePush(q, beacon) == Append(q, beacon)

\* 254-286: the beacon of the log is pushed at the tail of the queue
SyncL1MessageSent ==
    /\ pc = "sync_logs"
    /\ logs # <<>>
    /\ Head(logs).kind = "L1MessageSent"
    /\ LogHandled(Head(logs))
    /\ rw_lock = "free"
    /\ msg_serial < MaxMessages
    /\ msg_serial' = msg_serial + 1
    /\ l1_message_queue' =
           QueuePush(l1_message_queue,
                     [l1 |-> Head(logs).l1, serial |-> msg_serial + 1])
    /\ logs' = Tail(logs)
    /\ UNCHANGED <<chain_state, prover_requests, pending_proofs,
                   last_sync_block, rw_lock, pc, latest_block, from, to,
                   todo, blocks, fin_args, task, envVars, delivered, mine_step,
                   submit_sent, fin_sent, fin_result, retry, ranges, tick>>

\* the next range starts two blocks after the end of this one
NextFromSkips(last) == last + 2

\* 289: the next range starts right after the end of this one
NextFrom(last) == last + 1

\* 289: the batch is done
SyncNextRange ==
    /\ pc = "sync_logs"
    /\ logs = <<>>
    /\ from' = NextFrom(to)
    /\ pc' = "sync_fetch"
    /\ UNCHANGED <<rwVars, rw_lock, latest_block, to, logs, todo, blocks,
                   fin_args, task, envVars, histVars>>

\* 292: the loop has ended (or was never entered)
SyncCommit ==
    /\ pc = "sync_fetch"
    /\ from > latest_block
    /\ rw_lock = "free"
    /\ last_sync_block' = latest_block
    /\ pc' = "mine_lock"
    /\ ResetLocals
    /\ ranges' = <<>>
    /\ UNCHANGED <<chain_state, prover_requests, pending_proofs,
                   l1_message_queue, rw_lock, task, envVars, msg_serial,
                   delivered, mine_step, submit_sent, fin_sent, fin_result,
                   retry, tick>>

\* ------------------------------------------------------ environment
\* The L1 chain grows by a block holding at most one bridge log.  The
\* coordinator sees the chain only through eth_blockNumber and through
\* eth_getLogs up to that number, so the growth is placed right before
\* eth_blockNumber.
L1NewBlock ==
    /\ pc = "sync_block_number"
    /\ Len(l1_chain) < MaxL1Blocks
    /\ \E log \in BridgeLogs \cup {NoLog} : l1_chain' = Append(l1_chain, log)
    /\ UNCHANGED <<rwVars, rw_lock, pc, localVars, task, l2_height, txpool,
                   healthy, mining, init2, histVars>>

\* Somebody sends a transaction to the leader.  The coordinator sees the
\* pool only through txpool_status, so the arrival is placed right
\* before it.
L2UserTx ==
    /\ pc = "mine_txpool"
    /\ txpool = 0
    /\ txpool' = 1
    /\ tick' = NoTick
    /\ UNCHANGED <<rwVars, rw_lock, pc, localVars, task, l1_chain,
                   l2_height, healthy, mining, init2, histRest>>


\* ------------------------------------------------------------- mine
\* drain(len - 1..len): the newest message instead of the oldest
DrainLast(q) == [taken |-> SubSeq(q, Len(q), Len(q)),
                 rest |-> SubSeq(q, 1, Len(q) - 1)]

\* drain(..): the whole queue in one step
DrainAll(q) == [taken |-> q, rest |-> <<>>]

\* 304: drain(0..1) takes the first element off the queue
DrainFirst(q) == [taken |-> SubSeq(q, 1, 1), rest |-> Tail(q)]

\* the guard kept while the messages are sent
LockKeptAfterDrain == "main"

\* 305: drop(rw) before the messages are sent
LockAfterDrain == "free"

\* 300: the guard is bound to rw
MineLock ==
    /\ pc = "mine_lock"
    /\ rw_lock = "free"
    /\ rw_lock' = "main"
    /\ mine_step' = [NoMineStep EXCEPT !.before = Len(l1_message_queue)]
    /\ pc' = "mine_drain"
    /\ UNCHANGED <<rwVars, localVars, task, envVars, msg_serial,
                   ranges, delivered,
                   submit_sent, fin_sent, fin_result, retry, tick>>

\* 301-306, 312-313: with an empty queue the guard is dropped at the end
\* of the block
MineDrain ==
    /\ pc = "mine_drain"
    /\ rw_lock = "main"
    /\ IF Len(l1_message_queue) > 0
       THEN /\ todo' = DrainFirst(l1_message_queue).taken
            /\ l1_message_queue' = DrainFirst(l1_message_queue).rest
            /\ rw_lock' = LockAfterDrain
            /\ pc' = "mine_send"
       ELSE /\ todo' = <<>>
            /\ l1_message_queue' = l1_message_queue
            /\ rw_lock' = "free"
            /\ pc' = "mine_txpool"
    /\ UNCHANGED <<chain_state, prover_requests, pending_proofs,
                   last_sync_block, latest_block, from, to, logs, blocks,
                   fin_args, task, envVars, histVars>>

\* a message whose delivery failed goes back to the tail of the queue
RequeueOnFailure(q, msg, sent_ok) == IF sent_ok THEN q ELSE Append(q, msg)

\* 307-311: the loop body hands msg to transaction_to_l2, whose outcome
\* it does not look at, and touches the queue no more
QueueAfterSend(q, msg, sent_ok) == q

\* 307-311: transaction_to_l2 for each drained message; the leader takes
\* the transaction into its pool or the send fails
MineSend ==
    /\ pc = "mine_send"
    /\ todo # <<>>
    /\ delivered' = Append(delivered, Head(todo).serial)
    /\ mine_step' = [mine_step EXCEPT !.sent = @ + 1]
    /\ \E sent_ok \in BOOLEAN :
           /\ txpool' = IF sent_ok THEN 1 ELSE txpool
           /\ l1_message_queue' =
                  QueueAfterSend(l1_message_queue, Head(todo), sent_ok)
    /\ todo' = Tail(todo)
    /\ pc' = IF Tail(todo) = <<>> THEN "mine_txpool" ELSE "mine_send"
    /\ tick' = Disturbed(tick)
    /\ UNCHANGED <<chain_state, prover_requests, pending_proofs,
                   last_sync_block, rw_lock, latest_block, from, to, logs,
                   blocks, fin_args, task, l1_chain, l2_height, healthy,
                   mining, init2, msg_serial, ranges, submit_sent, fin_sent,
                   fin_result, retry>>

\* the miner kicked whatever the pool holds
ShouldMineAlways(pending_txs) == pending_txs >= 0

\* 329: the miner is kicked only for a pool that is not empty
ShouldMine(pending_txs) == pending_txs > 0

\* 329-348: the statement after txpool_status; the miner_stop of 349
\* follows the if and is reached around it as well
AfterTxpool(pending_txs) ==
    IF ShouldMine(pending_txs) THEN "mine_start" ELSE "mine_stop"

\* 316-329: txpool_status
MineTxpool ==
    /\ pc = "mine_txpool"
    /\ pc' = AfterTxpool(txpool)
    /\ UNCHANGED <<rwVars, rw_lock, localVars, task, envVars, histVars>>

\* what the step has asked of the miner, with the outcome of each call
MinerCall(step, call) == [step EXCEPT !.miner = Append(@, call)]

\* 336-346: miner_start; the leader enters mining mode and seals a
\* block with the pool's transactions, or the call fails and its error
\* is dropped (unwrap_or_default), which it does no more once the
\* services have recovered
MineStart ==
    /\ pc = "mine_start"
    /\ \/ /\ l2_height < MaxL2Blocks
          /\ l2_height' = l2_height + 1
          /\ txpool' = 0
          /\ mining' = TRUE
          /\ mine_step' = MinerCall(mine_step, "start_ok")
       \/ /\ ~healthy \/ l2_height = MaxL2Blocks
          /\ mine_step' = MinerCall(mine_step, "start_err")
          /\ UNCHANGED <<l2_height, txpool, mining>>
    /\ pc' = "mine_stop"
    /\ UNCHANGED <<rwVars, rw_lock, localVars, task, l1_chain, healthy,
                   init2, msg_serial, ranges, delivered, submit_sent, fin_sent,
                   fin_result, retry, tick>>

\* 349-354: miner_stop; the leader leaves mining mode, or the call
\* fails and its error is dropped as well (unwrap_or_default)
MineStop ==
    /\ pc = "mine_stop"
    /\ \/ /\ mining' = FALSE
          /\ mine_step' = MinerCall(mine_step, "stop_ok")
       \/ /\ ~healthy
          /\ mine_step' = MinerCall(mine_step, "stop_err")
          /\ UNCHANGED mining
    /\ pc' = "mine_head"
    /\ UNCHANGED <<rwVars, rw_lock, localVars, task, l1_chain, l2_height,
                   txpool, healthy, init2, msg_serial, ranges, delivered,
                   submit_sent, fin_sent, fin_result, retry, tick>>

\* 356-357: the hash of the leader's latest block becomes head
MineHead ==
    /\ pc = "mine_head"
    /\ rw_lock = "free"
    /\ chain_state' = [chain_state EXCEPT
                           !.head_block_hash = HashOf(l2_height)]
    /\ mine_step' = NoMineStep
    /\ pc' = "submit_read"
    /\ UNCHANGED <<prover_requests, pending_proofs, last_sync_block,
                   l1_message_queue, rw_lock, localVars, task, envVars,
                   msg_serial,
                   ranges, delivered, submit_sent, fin_sent, fin_result,
                   retry, tick>>

\* ------------------------------------------------- the iteration
\* blocks.iter() without rev(): the newest block first
IterForward(bs) == [block |-> bs[1], rest |-> Tail(bs)]

\* blocks.iter().rev(): the next block is the last of the list
IterRev(bs) == [block |-> bs[Len(bs)], rest |-> SubSeq(bs, 1, Len(bs) - 1)]

\* ---------------------------------------------------- submit_blocks
\* 362-364
SubmitRead ==
    /\ pc = "submit_read"
    /\ rw_lock = "free"
    /\ submit_sent' = <<>>
    /\ pc' = IF chain_state.safe_block_hash # chain_state.head_block_hash
             THEN "submit_walk" ELSE "fin_read"
    /\ UNCHANGED <<rwVars, rw_lock, localVars, task, envVars, msg_serial,
                   ranges,
                   delivered, mine_step, fin_sent, fin_result, retry, tick>>

\* 366-374
SubmitWalk ==
    /\ pc = "submit_walk"
    /\ WalkOk(chain_state.safe_block_hash, chain_state.head_block_hash)
    /\ blocks' = BlocksBetween(chain_state.safe_block_hash,
                               chain_state.head_block_hash)
    /\ pc' = "submit_block"
    /\ UNCHANGED <<rwVars, rw_lock, latest_block, from, to, logs, todo,
                   fin_args, task, envVars, histVars>>

\* safe moved to the block as soon as its submitBlock is sent
SafeAdvancedOnSubmit(cs, block) ==
    [cs EXCEPT !.safe_block_hash = HashOf(block)]

\* 375-398: the loop body takes no guard of rw; chain_state is what it
\* was after submitBlock went out for block
StateAfterSubmit(cs, block) == cs

\* 375-398: debug_getHeaderRlp and the submitBlock transaction of one
\* block
SubmitBlock ==
    /\ pc = "submit_block"
    /\ blocks # <<>>
    /\ chain_state' = StateAfterSubmit(chain_state, IterRev(blocks).block)
    /\ submit_sent' = Append(submit_sent, IterRev(blocks).block)
    /\ blocks' = IterRev(blocks).rest
    /\ pc' = IF IterRev(blocks).rest = <<>> THEN "fin_read" ELSE "submit_block"
    /\ tick' = L1Sent(tick)
    /\ UNCHANGED <<prover_requests, pending_proofs, last_sync_block,
                   l1_message_queue, rw_lock, latest_block, from, to, logs,
                   todo, fin_args, task, envVars, msg_serial,
                   ranges, delivered, mine_step,
                   fin_sent, fin_result, retry>>


\* -------------------------------------------------- finalize_blocks
\* 404-406; with final = safe the tick is over
FinRead ==
    /\ pc = "fin_read"
    /\ rw_lock = "free"
    /\ fin_result' = "none"
    /\ pc' = IF chain_state.finalized_block_hash # chain_state.safe_block_hash
             THEN "fin_walk" ELSE "tick_end"
    /\ UNCHANGED <<rwVars, rw_lock, localVars, task, envVars, msg_serial,
                   ranges,
                   delivered, mine_step, submit_sent, fin_sent, retry, tick>>

\* 407-415
FinWalk ==
    /\ pc = "fin_walk"
    /\ WalkOk(chain_state.finalized_block_hash, chain_state.safe_block_hash)
    /\ blocks' = BlocksBetween(chain_state.finalized_block_hash,
                               chain_state.safe_block_hash)
    /\ pc' = "fin_lock"
    /\ UNCHANGED <<rwVars, rw_lock, latest_block, from, to, logs, todo,
                   fin_args, task, envVars, histVars>>

\* the test with > for >=
BackPressureOffByOne(pp) == pp > MAX_PENDING_PROOFS

\* the test left out
BackPressureNever(pp) == FALSE

\* 432: the back-pressure test
BackPressure(pp) == pp >= MAX_PENDING_PROOFS

\* 416-418: the loop goes on to the next block; after the last one the
\* tick is over
NextBlock ==
    /\ blocks' = IterRev(blocks).rest
    /\ fin_args' = NoArgs
    /\ pc' = IF IterRev(blocks).rest = <<>>
             THEN "tick_end" ELSE "fin_lock"

\* 426: the guard is bound to rw
FinLock ==
    /\ pc = "fin_lock"
    /\ blocks # <<>>
    /\ rw_lock = "free"
    /\ rw_lock' = "main"
    /\ fin_result' = "none"
    /\ pc' = "fin_match"
    /\ UNCHANGED <<rwVars, localVars, task, envVars, msg_serial,
                   ranges, delivered,
                   mine_step, submit_sent, fin_sent, retry, tick>>

\* 461: block_hash.encode(), the 32 bytes of the hash as a byte string
Encode(h) == <<h>>

\* state_proof first
ProofDataSwapped(proof) == proof.state_proof \o proof.evm_proof

\* 462-465: evm_proof, then state_proof, appended to an empty vector
ProofData(proof) == (<<>> \o proof.evm_proof) \o proof.state_proof

\* 460-465, 473-477: the arguments of finalizeBlock
FinalizeArgs(k, proof) ==
    [block_hash |-> HashOf(k),
     witness |-> Encode(HashOf(k)),
     proof_data |-> ProofData(proof)]

\* 427-466: the lookup of the slot of block k and its three cases, to
\* the point where the guard is dropped
FinMatch ==
    /\ pc = "fin_match"
    /\ rw_lock = "main"
    /\ LET k == IterRev(blocks).block
           v == prover_requests[k]
       IN  \/ /\ v.st = "absent"
              /\ BackPressure(pending_proofs)
              /\ fin_result' = "waiting"
              /\ NextBlock
              /\ UNCHANGED <<prover_requests, pending_proofs, task, retry>>
           \/ /\ v.st = "absent"
              /\ ~BackPressure(pending_proofs)
              /\ prover_requests' = [prover_requests EXCEPT ![k] = Pending]
              /\ pending_proofs' = WrappingInc(pending_proofs)
              /\ task' = [task EXCEPT ![k] = [NoTask EXCEPT !.pc = "run"]]
              /\ retry' = [retry EXCEPT
                               ![k] = IF @ = "failed" THEN "retried" ELSE @]
              /\ fin_result' = "requested"
              /\ NextBlock
           \/ /\ v.st = "pending"
              /\ fin_result' = "not_ready"
              /\ NextBlock
              /\ UNCHANGED <<prover_requests, pending_proofs, task, retry>>
           \/ /\ v.st = "ready"
              /\ fin_result' = "found"
              /\ fin_args' = FinalizeArgs(k, v.proof)
              /\ pc' = "fin_send"
              /\ UNCHANGED <<prover_requests, pending_proofs, task, retry,
                             blocks>>
    /\ rw_lock' = "free"
    /\ UNCHANGED <<chain_state, last_sync_block, l1_message_queue,
                   latest_block, from, to, logs, todo, envVars, msg_serial,
                   ranges,
                   delivered, mine_step, submit_sent, fin_sent, tick>>

\* the entry removed once its proof has been sent
SlotRemovedAfterSend(v) == Absent

\* 457-483: the arm that sends the proof has no insert and no remove
SlotAfterSend(v) == v

\* 468-481: the finalizeBlock transaction of block k
FinSend ==
    /\ pc = "fin_send"
    /\ fin_sent' = fin_sent \cup {IterRev(blocks).block}
    /\ prover_requests' =
           [prover_requests EXCEPT
                ![IterRev(blocks).block] = SlotAfterSend(@)]
    /\ tick' = L1Sent(tick)
    /\ NextBlock
    /\ UNCHANGED <<chain_state, pending_proofs, last_sync_block,
                   l1_message_queue, rw_lock, latest_block, from, to, logs,
                   todo, task, envVars, msg_serial,
                   ranges, delivered, mine_step,
                   submit_sent, fin_result, retry>>

\* ------------------------------------------------ the proof task
\* 446, 512-532: request_proof ends with a proof, with Err (non-zero
\* exit), or panics (the prover cannot be launched, its output does not
\* parse)
ProofReturn(k) ==
    /\ task[k].pc = "run"
    /\ \/ \E p \in Proofs :
              task' = [task EXCEPT
                           ![k] = [pc |-> "got", res |-> "ok", proof |-> p]]
       \/ /\ ~healthy
          /\ task' = [task EXCEPT
                          ![k] = [pc |-> "got", res |-> "err",
                                  proof |-> NoProof]]
       \/ /\ ~healthy
          /\ task' = [task EXCEPT ![k] = [NoTask EXCEPT !.pc = "dead"]]
    /\ UNCHANGED <<rwVars, rw_lock, pc, localVars, envVars, histVars>>

\* the arms of the match exchanged
CommitSlotSwapped(res, proof) == IF res = "err" THEN Ready(proof) ELSE Absent

\* Err leaves the entry in place
CommitSlotKeepsFailed(res, proof) ==
    IF res = "err" THEN Pending ELSE Ready(proof)

\* 449-452: Err removes the entry, Ok stores the proof
CommitSlot(res, proof) == IF res = "err" THEN Absent ELSE Ready(proof)

\* 447-453: the guard is taken, the result is committed and the guard
\* is dropped with nothing awaited in between
ProofCommit(k) ==
    /\ task[k].pc = "got"
    /\ rw_lock = "free"
    /\ pending_proofs' = WrappingDec(pending_proofs)
    /\ prover_requests' =
           [prover_requests EXCEPT
                ![k] = CommitSlot(task[k].res, task[k].proof)]
    /\ retry' = [retry EXCEPT
                     ![k] = IF task[k].res = "err" THEN "failed" ELSE "none"]
    /\ task' = [task EXCEPT ![k] = NoTask]
    /\ UNCHANGED <<chain_state, last_sync_block, l1_message_queue, rw_lock, pc,
                   localVars, envVars, msg_serial,
                   ranges, delivered, mine_step,
                   submit_sent, fin_sent, fin_result, tick>>

\* ------------------------------------------------ specification
Next ==
    \/ InitCheck \/ InitGenesis \/ InitWrite
    \/ SyncBlockNumber \/ SyncFrom \/ SyncFetch \/ SyncBlockSubmitted
    \/ SyncBlockFinalized \/ SyncL1MessageSent \/ SyncNextRange
    \/ SyncCommit
    \/ MineLock \/ MineDrain \/ MineSend \/ MineTxpool \/ MineStart
    \/ MineStop \/ MineHead
    \/ SubmitRead \/ SubmitWalk \/ SubmitBlock
    \/ FinRead \/ FinWalk \/ FinLock \/ FinMatch \/ FinSend
    \/ StepPanic \/ TickEnd
    \/ \E k \in BlockNums : ProofReturn(k) \/ ProofCommit(k)
    \/ L1NewBlock \/ L2UserTx

Spec == Init /\ [][Next]_vars

\* ------------------------------------------- a second caller of init
\* init is a pub method of the cloneable SharedState: another holder of
\* a clone calls it while the first call, or the main loop, is running
SecondInitCall ==
    /\ init2 = "none"
    /\ init2' = "init_check"
    /\ UNCHANGED <<rwVars, rw_lock, pc, localVars, task, l1_chain,
                   l2_height, txpool, healthy, mining, histVars>>

\* 143-145
SecondInitCheck ==
    /\ init2 = "init_check"
    /\ rw_lock = "free"
    /\ init2' = IF chain_state.head_block_hash # ZeroHash
                THEN "panicked" ELSE "init_genesis"
    /\ UNCHANGED <<rwVars, rw_lock, pc, localVars, task, l1_chain,
                   l2_height, txpool, healthy, mining, histVars>>

\* 147-153
SecondInitGenesis ==
    /\ init2 = "init_genesis"
    /\ init2' \in {"init_write", "panicked"}
    /\ UNCHANGED <<rwVars, rw_lock, pc, localVars, task, l1_chain,
                   l2_height, txpool, healthy, mining, histVars>>

\* 156-160
SecondInitWrite ==
    /\ init2 = "init_write"
    /\ rw_lock = "free"
    /\ chain_state' = [head_block_hash |-> HashOf(0),
                       safe_block_hash |-> HashOf(0),
                       finalized_block_hash |-> HashOf(0)]
    /\ init2' = "done"
    /\ UNCHANGED <<prover_requests, pending_proofs, last_sync_block,
                   l1_message_queue, rw_lock, pc, localVars, task, l1_chain,
                   l2_height, txpool, healthy, mining, histVars>>

NextTwoInits ==
    \/ Next
    \/ SecondInitCall \/ SecondInitCheck \/ SecondInitGenesis
    \/ SecondInitWrite

TwoInitsSpec == Init /\ [][NextTwoInits]_vars

\* ------------------------------------ recovery of the outside world
\* From here on every RPC answers, the miner seals, the prover ends
\* with a proof and the bridge takes every transaction it is sent.
Recover ==
    /\ ~healthy
    /\ healthy' = TRUE
    /\ UNCHANGED <<rwVars, rw_lock, pc, localVars, task, l1_chain,
                   l2_height, txpool, mining, init2, histVars>>

\* the logs of the transactions of the coordinator that the bridge can
\* take next: the submitBlock of this tick for the next block it
\* expects, the finalizeBlock for the next block it has not finalized
InclusionLogs ==
    (IF \E i \in 1..Len(submit_sent) : submit_sent[i] = Submitted + 1
     THEN {SubmittedLog(HashOf(Submitted + 1))} ELSE {})
    \cup (IF Finalized < Submitted /\ (Finalized + 1) \in fin_sent
          THEN {FinalizedLog(HashOf(Finalized + 1))} ELSE {})

\* 395, 480: a transaction sent by transaction_to_l1 is included in a new
\* L1 block before the next tick reads the chain
L1Inclusion ==
    /\ pc = "tick_end"
    /\ \E log \in InclusionLogs : l1_chain' = Append(l1_chain, log)
    /\ UNCHANGED <<rwVars, rw_lock, pc, localVars, task, l2_height, txpool,
                   healthy, mining, init2, histVars>>

\* the steps of the main loop when no L1 message is sent
MainStep ==
    \/ InitCheck \/ InitGenesis \/ InitWrite
    \/ SyncBlockNumber \/ SyncFrom \/ SyncFetch \/ SyncBlockSubmitted
    \/ SyncBlockFinalized \/ SyncNextRange \/ SyncCommit
    \/ MineLock \/ MineDrain \/ MineTxpool \/ MineStart
    \/ MineStop \/ MineHead
    \/ SubmitRead \/ SubmitWalk \/ SubmitBlock
    \/ FinRead \/ FinWalk \/ FinLock \/ FinMatch \/ FinSend
    \/ StepPanic \/ TickEnd

NextRecovering ==
    \/ MainStep
    \/ \E k \in BlockNums : ProofReturn(k) \/ ProofCommit(k)
    \/ L2UserTx \/ L1Inclusion \/ Recover

\* The driver runs tick after tick and tokio runs every spawned task;
\* its Mutex is fair, so a task waiting for the lock gets it; after the
\* recovery the bridge includes what it is sent.
RecoveringSpec ==
    /\ Init
    /\ [][NextRecovering]_vars
    /\ WF_vars(MainStep)
    /\ \A k \in BlockNums : WF_vars(ProofReturn(k)) /\ SF_vars(ProofCommit(k))
    /\ SF_vars(healthy /\ L1Inclusion)

\* ------------------------------------------- logs sync cannot read
\* The bridge's topics also reach sync in logs it cannot read: the next
\* L1 block holds one of them.
L1MalformedBlock ==
    /\ pc = "sync_block_number"
    /\ Len(l1_chain) < MaxL1Blocks
    /\ \E log \in MalformedLogs : l1_chain' = Append(l1_chain, log)
    /\ UNCHANGED <<rwVars, rw_lock, pc, localVars, task, l2_height, txpool,
                   healthy, mining, init2, histVars>>

NextMalformed == Next \/ L1MalformedBlock \/ Recover

MalformedSpec == Init /\ [][NextMalformed]_vars

\* ------------------------------------------ the ranges of one pass
\* sync on its own, entered with any last_sync_block over an L1 chain
\* of any length up to MaxRangeBlocks whose blocks hold no bridge log:
\* the state after init and some committed passes.
InitRanges ==
    /\ chain_state = [head_block_hash |-> HashOf(0),
                      safe_block_hash |-> HashOf(0),
                      finalized_block_hash |-> HashOf(0)]
    /\ prover_requests = [k \in BlockNums |-> Absent]
    /\ pending_proofs = 0
    /\ \E n \in 0..MaxRangeBlocks : l1_chain = [i \in 1..n |-> NoLog]
    /\ last_sync_block \in 0..Len(l1_chain)
    /\ l1_message_queue = <<>>
    /\ rw_lock = "free"
    /\ pc = "sync_block_number"
    /\ latest_block = 0
    /\ from = 0
    /\ to = 0
    /\ logs = <<>>
    /\ todo = <<>>
    /\ blocks = <<>>
    /\ fin_args = NoArgs
    /\ task = [k \in BlockNums |-> NoTask]
    /\ l2_height = 0
    /\ txpool = 0
    /\ mining = FALSE
    /\ healthy = FALSE
    /\ init2 = "none"
    /\ msg_serial = 0
    /\ ranges = <<>>
    /\ delivered = <<>>
    /\ mine_step = NoMineStep
    /\ submit_sent = <<>>
    /\ fin_sent = {}
    /\ fin_result = "none"
    /\ retry = [k \in BlockNums |-> "none"]
    /\ tick = TickStart(chain_state, txpool, HashOf(l2_height))

NextRanges ==
    \/ SyncBlockNumber \/ SyncFrom \/ SyncFetch \/ SyncNextRange
    \/ SyncCommit \/ StepPanic

RangesSpec == InitRanges /\ [][NextRanges]_vars

\* ============================================================ claims

\* C1: pending_proofs is at least 0 and at most MAX_PENDING_PROOFS in
\* every reachable state, under every interleaving of finalize steps and
\* proof tasks ending in success or failure; the task's decrement never
\* takes it below 0 (where the u32 would wrap).
PendingProofsBounded ==
    pending_proofs >= 0 /\ pending_proofs <= MAX_PENDING_PROOFS

\* a proof task has succeeded, another has failed, none is in flight
PendingProofsReleased ==
    /\ pending_proofs = 0
    /\ \E k \in BlockNums : prover_requests[k].st = "ready"
    /\ \E k \in BlockNums : retry[k] = "failed"

\* C2: no activity holds the rw lock at a point where it starts or awaits
\* an RPC, a transaction send or the prover: the main activity holds a
\* guard only between taking it and the end of the critical section
\* (mine_drain, fin_match), never at a position that awaits I/O.
IoPcs == {"init_genesis", "sync_block_number", "sync_fetch", "sync_logs",
          "mine_send", "mine_txpool", "mine_start", "mine_stop",
          "mine_head", "submit_walk", "submit_block", "fin_walk",
          "fin_send", "tick_end"}

NoLockAcrossIo ==
    /\ pc \in IoPcs => rw_lock = "free"
    /\ rw_lock = "main" => pc \in {"mine_drain", "fin_match"}

\* a message was drained under the lock and is about to be sent to L2
DrainedMessageBeingSent ==
    pc = "mine_send" /\ todo # <<>> /\ rw_lock = "free"

\* C3: last_sync_block never decreases, whatever eth_blockNumber
\* returns.
LastSyncBlockNonDecreasing ==
    [][last_sync_block' >= last_sync_block]_vars

\* C4: the slot of block k only goes absent -> pending (a proof is
\* requested), pending -> ready (the prover succeeded) and pending ->
\* absent (the prover failed); a ready slot never changes and a proof is
\* requested only for an absent slot.
SlotStep(k) ==
    LET a == prover_requests[k]
        b == prover_requests'[k]
    IN  /\ a # b =>
            \/ a = Absent /\ b = Pending /\ task'[k].pc = "run"
            \/ /\ a = Pending /\ b.st = "ready"
               /\ task[k].res = "ok" /\ b.proof = task[k].proof
            \/ a = Pending /\ b = Absent /\ task[k].res = "err"
        /\ (task[k].pc # "run" /\ task'[k].pc = "run") =>
               (a = Absent /\ b = Pending)

ProofSlotTransitions == [][\A k \in BlockNums : SlotStep(k)]_vars

\* one slot went absent -> pending -> ready and was used, another went
\* pending -> absent
SlotsReadyAndRemoved ==
    /\ \E k \in BlockNums : prover_requests[k].st = "ready" /\ k \in fin_sent
    /\ \E k \in BlockNums : retry[k] = "failed" /\ prover_requests[k] = Absent

\* C5: when the prover of block N fails, the task removes the slot and
\* decrements pending_proofs in one critical section, and the next
\* finalize_block that reaches N with no other proof in flight requests
\* the proof again.
ProverFailureStep(k) ==
    (task[k].pc = "got" /\ task[k].res = "err" /\ task'[k].pc = "none") =>
        /\ prover_requests[k] = Pending
        /\ prover_requests'[k] = Absent
        /\ pending_proofs' = pending_proofs - 1

RetryStep ==
    (/\ pc = "fin_match"
     /\ pc' # "fin_match"
     /\ retry[IterRev(blocks).block] = "failed"
     /\ pending_proofs < MAX_PENDING_PROOFS) =>
        /\ task'[IterRev(blocks).block].pc = "run"
        /\ prover_requests'[IterRev(blocks).block] = Pending
        /\ pending_proofs' = pending_proofs + 1

ProverFailureRetried ==
    [][(\A k \in BlockNums : ProverFailureStep(k)) /\ RetryStep]_vars

\* the prover of a block failed and runs again for the same block
ProverRunsAgain ==
    \E k \in BlockNums :
        /\ retry[k] = "retried"
        /\ task[k].pc = "run"
        /\ prover_requests[k] = Pending

\* C6: finalize_block for a block whose slot is absent while
\* pending_proofs = MAX_PENDING_PROOFS returns without spawning a task
\* and leaves prover_requests, pending_proofs and chain_state unchanged.
BackPressureReturn ==
    [][(/\ pc = "fin_match"
        /\ pc' # "fin_match"
        /\ prover_requests[IterRev(blocks).block] = Absent
        /\ pending_proofs = MAX_PENDING_PROOFS) =>
           /\ UNCHANGED <<prover_requests, pending_proofs, chain_state, task>>
           /\ pc' \in {"fin_lock", "tick_end"}
           /\ fin_result' = "waiting"]_vars

\* finalize_block has just returned on back-pressure: the block it was
\* called for has no slot, another block's proof is in flight
WaitingOnBackPressure ==
    /\ fin_result = "waiting"
    /\ pc \in {"fin_lock", "tick_end"}
    /\ pending_proofs = MAX_PENDING_PROOFS
    /\ \E k \in BlockNums : prover_requests[k] = Absent

\* C7: finalizeBlock is sent in forward chain order: of two blocks a
\* before b that are both in (final, safe], b's finalizeBlock is never
\* sent before a's.
InFinalSafeRange(k) ==
    /\ WalkOk(chain_state.finalized_block_hash, chain_state.safe_block_hash)
    /\ \E i \in 1..Len(BlocksBetween(chain_state.finalized_block_hash,
                                     chain_state.safe_block_hash)) :
           BlocksBetween(chain_state.finalized_block_hash,
                         chain_state.safe_block_hash)[i] = k

FinalizeInChainOrder ==
    \A a, b \in BlockNums :
        (a < b /\ InFinalSafeRange(a) /\ InFinalSafeRange(b)
         /\ b \in fin_sent) => a \in fin_sent

\* C8: one submit step issues submitBlock for exactly the blocks of
\* (safe, head], each once, oldest first, and nothing when safe = head.
ForwardRange(lo, hi) == [i \in 1..(hi - lo) |-> lo + i]

SubmitForwardOrder ==
    pc = "fin_read" =>
        submit_sent =
            IF chain_state.safe_block_hash = chain_state.head_block_hash
            THEN <<>>
            ELSE ForwardRange(NumberOf(chain_state.safe_block_hash),
                              NumberOf(chain_state.head_block_hash))

\* a submit step over two blocks has ended
SubmittedTwoBlocks == pc = "fin_read" /\ Len(submit_sent) = 2

\* C9: L1 messages reach L2 in FIFO order: the messages delivered so
\* far, then the drained one, then the queue from head to tail are the
\* messages in the order sync pushed them.
Serials(q) == [i \in 1..Len(q) |-> q[i].serial]

MessagesFifo ==
    delivered \o Serials(todo) \o Serials(l1_message_queue)
        = [i \in 1..msg_serial |-> i]

\* two messages were delivered while a third waits
TwoDeliveredOneQueued == Len(delivered) = 2 /\ Len(l1_message_queue) = 1

\* C10: a mine step takes exactly one message off a non-empty queue and
\* sends exactly one L2 transaction for it, and takes and sends none
\* when the queue is empty.
MineDeliversOne ==
    /\ pc = "mine_send" =>
           Len(todo) + mine_step.sent = 1
    /\ pc \in {"mine_send", "mine_txpool", "mine_start", "mine_stop",
               "mine_head"} =>
           /\ Len(todo) + mine_step.sent
                  = (IF mine_step.before > 0 THEN 1 ELSE 0)
           /\ Len(l1_message_queue) + Len(todo) + mine_step.sent
                  = mine_step.before

\* one of two queued messages was delivered by the step
OneOfTwoDelivered ==
    /\ pc = "mine_txpool"
    /\ mine_step.before = 2
    /\ mine_step.sent = 1
    /\ Len(l1_message_queue) = 1

\* C11: when sync processes a BlockSubmitted log whose block hash the
\* leader does not know, safe keeps its value; safe is set to the hash
\* only when the leader knows it.
SafeOnlyWhenLeaderKnows ==
    [][(/\ pc = "sync_logs"
        /\ logs # <<>>
        /\ Head(logs).kind = "BlockSubmitted"
        /\ logs' = Tail(logs)) =>
           chain_state'.safe_block_hash =
               IF LeaderKnows(Head(logs).hash)
               THEN Head(logs).hash
               ELSE chain_state.safe_block_hash]_vars

IsAncestorOrEqual(a, h) == WalkOk(a, h)

FinalSafeHeadChain ==
    chain_state.head_block_hash # ZeroHash =>
        /\ IsAncestorOrEqual(chain_state.finalized_block_hash,
                             chain_state.safe_block_hash)
        /\ IsAncestorOrEqual(chain_state.safe_block_hash,
                             chain_state.head_block_hash)

\* C15: the finalizeBlock transaction of block k with hash H and ready
\* proof (evm_proof, state_proof) carries (H, encode(H), proof_data),
\* where proof_data has the length of both proofs together, begins with
\* evm_proof and ends with state_proof.
FinalizeCarriesProof ==
    pc = "fin_send" =>
        LET k == IterRev(blocks).block
            proof == prover_requests[k].proof
            pd == fin_args.proof_data
            n == Len(proof.evm_proof)
        IN  /\ prover_requests[k].st = "ready"
            /\ fin_args.block_hash = HashOf(k)
            /\ fin_args.witness = Encode(HashOf(k))
            /\ Len(pd) = n + Len(proof.state_proof)
            /\ SubSeq(pd, 1, n) = proof.evm_proof
            /\ SubSeq(pd, n + 1, Len(pd)) = proof.state_proof

\* finalizeBlock is about to be sent with a proof whose two parts are
\* not empty
SendingTwoPartProof ==
    /\ pc = "fin_send"
    /\ Len(prover_requests[IterRev(blocks).block].proof.evm_proof) = 2
    /\ Len(fin_args.proof_data) = 3

\* C17: a sync pass that finds last_sync_block >= latest leaves safe,
\* final, l1_message_queue and last_sync_block as they were.
SyncNoOpWhenCaughtUp ==
    [][(/\ pc = "sync_fetch"
        /\ pc' = "mine_lock"
        /\ last_sync_block >= latest_block) =>
           UNCHANGED <<chain_state, l1_message_queue, last_sync_block>>]_vars

\* C19: whatever the outcome of the prover run, the task that was
\* spawned for a slot ends with pending_proofs decremented and the slot
\* no longer pending: a slot is pending, and counted in pending_proofs,
\* only while its task has not ended.
LiveTasks == {k \in BlockNums : task[k].pc \in {"run", "got"}}

PendingOnlyWhileTaskLives ==
    /\ \A k \in BlockNums :
           prover_requests[k].st = "pending" => k \in LiveTasks
    /\ pending_proofs = Cardinality(LiveTasks)

\* C20: sending finalizeBlock for k leaves the slot of k ready with the
\* same proof, and a later finalize_block that reaches k sends
\* finalizeBlock again and requests no proof.
ReadySlotKeptAndResent ==
    [][/\ (pc = "fin_send" /\ pc' # "fin_send") =>
              /\ prover_requests[IterRev(blocks).block].st = "ready"
              /\ prover_requests'[IterRev(blocks).block]
                     = prover_requests[IterRev(blocks).block]
       /\ (/\ pc = "fin_match"
           /\ pc' # "fin_match"
           /\ IterRev(blocks).block \in fin_sent) =>
              /\ pc' = "fin_send"
              /\ UNCHANGED <<prover_requests, pending_proofs, task>>]_vars

\* finalizeBlock of a block is about to be sent a second time
SendingFinalizeAgain ==
    /\ pc = "fin_send"
    /\ IterRev(blocks).block \in fin_sent
    /\ InFinalSafeRange(IterRev(blocks).block)

\* C16: chain_state is initialised by init at most once: of two calls of
\* init, whatever their interleaving, at most one passes the
\* head-is-zero guard and writes chain_state; the other panics and
\* leaves chain_state as it is.
InitDone == pc \notin {"init_check", "init_genesis", "init_write", "panicked"}

InitWritesAtMostOnce == ~(InitDone /\ init2 = "done")

\* C13: the number of entries of prover_requests is at most the number
\* of blocks in (final, safe] plus a constant, the proofs in flight.
Entries == {k \in BlockNums : prover_requests[k].st # "absent"}

BlocksInFinalSafe ==
    IF WalkOk(chain_state.finalized_block_hash, chain_state.safe_block_hash)
    THEN Len(BlocksBetween(chain_state.finalized_block_hash,
                           chain_state.safe_block_hash))
    ELSE 0

ProverRequestsBounded ==
    Cardinality(Entries) <= BlocksInFinalSafe + MAX_PENDING_PROOFS

\* C18: once the outside world has recovered, every block of
\* (safe, head] is submitted and becomes safe, and every block of
\* (final, safe] gets its proof and has finalizeBlock sent.
InSafeHeadRange(k) ==
    /\ WalkOk(chain_state.safe_block_hash, chain_state.head_block_hash)
    /\ \E i \in 1..Len(BlocksBetween(chain_state.safe_block_hash,
                                     chain_state.head_block_hash)) :
           BlocksBetween(chain_state.safe_block_hash,
                         chain_state.head_block_hash)[i] = k

ProgressAfterRecovery ==
    \A k \in BlockNums :
        /\ (healthy /\ InSafeHeadRange(k)) ~>
               (/\ LeaderKnows(chain_state.safe_block_hash)
                /\ NumberOf(chain_state.safe_block_hash) >= k)
        /\ (healthy /\ InFinalSafeRange(k)) ~>
               (prover_requests[k].st = "ready" /\ k \in fin_sent)

\* C21: when a mine step is about to write head, its last call to the
\* leader's miner was miner_stop, after any miner_start it made and
\* also when it made none or the miner_start failed, and the leader is
\* not in mining mode.
MinerStoppedBeforeHead ==
    pc = "mine_head" =>
        /\ mine_step.miner # <<>>
        /\ mine_step.miner[Len(mine_step.miner)] \in {"stop_ok", "stop_err"}
        /\ ~mining

\* C22: while a submit step has several blocks left, whatever happens
\* to the block at hand (its header RLP cannot be fetched, its
\* submitBlock transaction fails) the step goes on with the later
\* blocks of (safe, head] and the coordinator state stays as it is.
SubmitLoopNotAborted ==
    [][(pc = "submit_block" /\ Len(blocks) >= 2) =>
           /\ pc' = "submit_block"
           /\ blocks' = IterRev(blocks).rest
           /\ UNCHANGED rwVars]_<<pc, blocks>>

\* C23: with the services answering, when the log at hand is a
\* BlockSubmitted without a transaction hash or with a transaction
\* input shorter than 68 bytes, or an L1MessageSent that does not
\* decode, sync drops that log alone and stays in the pass with the
\* remaining logs and the same latest.
MalformedLog(log) ==
    \/ /\ log.kind = "BlockSubmitted"
       /\ ~log.tx.some \/ log.tx.len < 68
    \/ /\ log.kind = "L1MessageSent"
       /\ ~log.abi_ok
MalformedLogSkipped ==
    [][(healthy /\ pc = "sync_logs" /\ logs # <<>>
            /\ MalformedLog(Head(logs))) =>
           /\ pc' = "sync_logs"
           /\ logs' = Tail(logs)
           /\ UNCHANGED latest_block]_<<pc, logs>>

\* C24: with the services answering, when the log at hand is a
\* BlockSubmitted whose transaction input is at least 68 bytes long and
\* declares a payload that ends beyond the input, sync goes on in the
\* pass: the hash of what the input holds becomes safe and the
\* remaining logs follow.
TruncatedPayload(log) ==
    /\ log.kind = "BlockSubmitted"
    /\ log.tx.some
    /\ log.tx.len >= 68
    /\ 68 + log.tx.declared > log.tx.len
TruncatedPayloadProceeds ==
    [][(healthy /\ pc = "sync_logs" /\ logs # <<>>
            /\ TruncatedPayload(Head(logs))) =>
           /\ pc' = "sync_logs"
           /\ logs' = Tail(logs)
           /\ chain_state'.safe_block_hash = Head(logs).hash]_<<pc, logs>>

\* C25: when a sync pass that read last_sync_block = s and latest = n
\* with n > s commits, the ranges it asked eth_getLogs for run from
\* s + 1 to n, each starting right after the end of the one before,
\* so that every block number of (s, n] lies in exactly one of them,
\* and the pass commits last_sync_block = n.
RangesCover(rs, s, n) ==
    /\ rs # <<>>
    /\ rs[1].from = s + 1
    /\ rs[Len(rs)].to = n
    /\ \A i \in 1..Len(rs) : rs[i].from <= rs[i].to
    /\ \A i \in 1..(Len(rs) - 1) : rs[i + 1].from = rs[i].to + 1
    /\ \A b \in (s + 1)..n :
           Cardinality({i \in 1..Len(rs) :
                           rs[i].from <= b /\ b <= rs[i].to}) = 1
SyncRangesCoverPass ==
    [][(pc = "sync_fetch" /\ pc' = "mine_lock"
            /\ latest_block > last_sync_block) =>
           /\ RangesCover(ranges, last_sync_block, latest_block)
           /\ last_sync_block' = latest_block]_vars

\* a pass of three ranges, the last one cut at latest, is about to
\* commit
ThreeRangesFetched ==
    /\ pc = "sync_fetch"
    /\ from > latest_block
    /\ Len(ranges) = 3
    /\ ranges[3].from = ranges[3].to

\* C26: a message that mine has drained is not in l1_message_queue
\* afterwards, neither while it waits to be sent nor after its
\* transaction_to_l2 has succeeded or failed, and no message is handed
\* to transaction_to_l2 twice.
QueuedSerials ==
    {l1_message_queue[i].serial : i \in 1..Len(l1_message_queue)}
DrainedSerials ==
    {todo[i].serial : i \in 1..Len(todo)}
        \cup {delivered[i] : i \in 1..Len(delivered)}
DrainedNeverRequeued ==
    /\ QueuedSerials \cap DrainedSerials = {}
    /\ \A i, j \in 1..Len(delivered) :
           i # j => delivered[i] # delivered[j]
    /\ \A i \in 1..Len(todo), j \in 1..Len(delivered) :
           todo[i].serial # delivered[j]

\* the delivery of a drained message has just failed (the pool is
\* still empty) while another message waits in the queue
FailedDeliveryDropped ==
    /\ pc = "mine_txpool"
    /\ mine_step.sent = 1
    /\ txpool = 0
    /\ l1_message_queue # <<>>

\* C27: in every reachable state pending_proofs is the number of
\* pending entries of prover_requests, which is the number of proof
\* tasks that were spawned and have not committed a result (running,
\* holding a result, or ended by a panic before the commit).
PendingSlots == {k \in BlockNums : prover_requests[k].st = "pending"}
UncommittedTasks ==
    {k \in BlockNums : task[k].pc \in {"run", "got", "dead"}}
PendingProofsCountsTasks ==
    /\ pending_proofs = Cardinality(PendingSlots)
    /\ Cardinality(PendingSlots) = Cardinality(UncommittedTasks)

\* a proof task holds its result and has not committed it yet, after
\* an earlier task committed a proof for another block
TaskAboutToCommit ==
    \E k \in BlockNums :
        /\ task[k].pc = "got"
        /\ pending_proofs = 1
        /\ \E j \in BlockNums : prover_requests[j].st = "ready"

\* C28: no L1MessageSent log is appended to l1_message_queue twice:
\* among the messages that are queued or drained and waiting to be
\* sent, no two come from the log of the same L1 block.
PushedBeacons ==
    {l1_message_queue[i] : i \in 1..Len(l1_message_queue)}
        \cup {todo[i] : i \in 1..Len(todo)}
MessageLogPushedOnce ==
    \A a, b \in PushedBeacons : a.l1 = b.l1 => a.serial = b.serial

\* C29: every step writes only the state of its own: safe and final
\* change only in sync and init, head only in mine and init,
\* last_sync_block only in sync, l1_message_queue only by an append in
\* sync or by the removal of its head in mine, prover_requests and
\* pending_proofs only in finalize_block or in a step of a proof task,
\* and a step of submit_blocks leaves the whole rw state as it is.
InitPcs == {"init_check", "init_genesis", "init_write"}
SyncPcs == {"sync_block_number", "sync_from", "sync_fetch", "sync_logs"}
MinePcs == {"mine_lock", "mine_drain", "mine_send", "mine_txpool",
            "mine_start", "mine_stop", "mine_head"}
SubmitPcs == {"submit_read", "submit_walk", "submit_block"}
FinalizePcs == {"fin_lock", "fin_match", "fin_send"}
FixedWriters ==
    [][/\ (\/ chain_state'.safe_block_hash # chain_state.safe_block_hash
           \/ chain_state'.finalized_block_hash
                  # chain_state.finalized_block_hash) =>
              pc \in SyncPcs \cup InitPcs
       /\ chain_state'.head_block_hash # chain_state.head_block_hash =>
              pc \in MinePcs \cup InitPcs
       /\ last_sync_block' # last_sync_block => pc \in SyncPcs
       /\ l1_message_queue' # l1_message_queue =>
              \/ /\ pc \in SyncPcs
                 /\ Len(l1_message_queue') = Len(l1_message_queue) + 1
                 /\ SubSeq(l1_message_queue', 1, Len(l1_message_queue))
                        = l1_message_queue
              \/ /\ pc \in MinePcs
                 /\ l1_message_queue' = Tail(l1_message_queue)
       /\ (\/ prover_requests' # prover_requests
           \/ pending_proofs' # pending_proofs) =>
              \/ pc \in FinalizePcs /\ pc' # pc
              \/ task' # task /\ pc' = pc
       /\ (pc \in SubmitPcs /\ task' = task) => UNCHANGED rwVars]_vars

\* every writer has written: a message was queued and delivered, a
\* BlockSubmitted log moved safe, mine moved head past it, submit_blocks
\* has sent a block in this tick and finalize_block has filled a slot
EveryStepHasWritten ==
    /\ pc = "tick_end"
    /\ last_sync_block > 0
    /\ delivered # <<>>
    /\ chain_state.safe_block_hash # HashOf(0)
    /\ chain_state.head_block_hash # chain_state.safe_block_hash
    /\ submit_sent # <<>>
    /\ \E k \in BlockNums : prover_requests[k].st # "absent"

====
